---- MODULE Spec2Model ----
(***************************************************************************)
(* Model of nndspack (src/nndspack/nndspack.py): the Packer that writes a  *)
(* pack file, the Loader that reads records by index, and the BatchLoader  *)
(* that iterates over a Loader in batches.                                 *)
(*                                                                         *)
(* The pack file is modelled as its byte content (a sequence of 0..255),   *)
(* as seen through the file objects of the Packer and the Loader.  The     *)
(* struct module is modelled with native alignment and little-endian byte  *)
(* order, integers in two's complement.                                    *)
(***************************************************************************)
EXTENDS Integers, Sequences, FiniteSets, TLC

(***************************************************************************)
(* Bounds of the model                                                     *)
(***************************************************************************)
\* most pack() calls on one Packer
MaxAppends == 2
\* most records of a file a BatchLoader is opened on
MaxCount == 4
\* largest batch_size of a BatchLoader
MaxBatch == 2
\* largest down_samples of a BatchLoader
MaxStride == 2
\* most __next__ calls made through one iterator handle
MaxYield == 4

(***************************************************************************)
(* Arithmetic helpers                                                      *)
(***************************************************************************)
Min(a, b) == IF a < b THEN a ELSE b

RECURSIVE Pow(_, _)
Pow(b, e) == IF e = 0 THEN 1 ELSE b * Pow(b, e - 1)

\* numpy.prod over a shape tuple (1 for the empty tuple)
RECURSIVE Prod(_)
Prod(s) == IF s = <<>> THEN 1 ELSE Head(s) * Prod(Tail(s))

\* bytes().join / ''.join / list concatenation
RECURSIVE Flatten(_)
Flatten(ss) == IF ss = <<>> THEN <<>> ELSE Head(ss) \o Flatten(Tail(ss))

\* Python slice s[a:b] of a tuple, 0-based, clipped to the tuple
Slice(s, a, b) ==
    LET hi == Min(b, Len(s))
    IN  IF hi <= a THEN <<>> ELSE [k \in 1..(hi - a) |-> s[a + k]]

(***************************************************************************)
(* Type registry                                                           *)
(***************************************************************************)
ElementTypes ==
    {"int8", "int16", "int32", "int64", "uint8", "uint16", "uint32", "uint64",
     "float16", "float32", "float64", "bool_"}

\* _TYPE_TO_CODE_DICT
TYPE_TO_CODE_DICT ==
    [t \in ElementTypes |->
        CASE t = "int8" -> 0 [] t = "int16" -> 1 [] t = "int32" -> 2
          [] t = "int64" -> 3 [] t = "uint8" -> 4 [] t = "uint16" -> 5
          [] t = "uint32" -> 6 [] t = "uint64" -> 7 [] t = "float16" -> 8
          [] t = "float32" -> 9 [] t = "float64" -> 10 [] t = "bool_" -> 11]

\* _CODE_TO_TYPE_DICT
CODE_TO_TYPE_DICT ==
    [c \in 0..11 |->
        CASE c = 0 -> "int8" [] c = 1 -> "int16" [] c = 2 -> "int32"
          [] c = 3 -> "int64" [] c = 4 -> "uint8" [] c = 5 -> "uint16"
          [] c = 6 -> "uint32" [] c = 7 -> "uint64" [] c = 8 -> "float16"
          [] c = 9 -> "float32" [] c = 10 -> "float64" [] c = 11 -> "bool_"]

\* _TYPE_TO_NBYTES_DICT
TYPE_TO_NBYTES_DICT ==
    [t \in ElementTypes |->
        CASE t \in {"int8", "uint8", "bool_"} -> 1
          [] t \in {"int16", "uint16", "float16"} -> 2
          [] t \in {"int32", "uint32", "float32"} -> 4
          [] t \in {"int64", "uint64", "float64"} -> 8]

\* _TYPE_TO_STRUCT_FORMAT
TYPE_TO_STRUCT_FORMAT ==
    [t \in ElementTypes |->
        CASE t = "int8" -> "b" [] t = "int16" -> "h" [] t = "int32" -> "i"
          [] t = "int64" -> "q" [] t = "uint8" -> "B" [] t = "uint16" -> "H"
          [] t = "uint32" -> "I" [] t = "uint64" -> "Q" [] t = "float16" -> "e"
          [] t = "float32" -> "f" [] t = "float64" -> "d" [] t = "bool_" -> "?"]

(***************************************************************************)
(* The struct module, native mode ('@'): every item is aligned to its own  *)
(* size, integers are little-endian two's complement.  A format is a       *)
(* sequence of items [n |-> repeat count, ch |-> format character].        *)
(***************************************************************************)
\* size (and native alignment) of one item of a format character
CharSize(ch) ==
    CASE ch \in {"b", "B", "?"} -> 1
      [] ch \in {"h", "H", "e"} -> 2
      [] ch \in {"i", "I", "f"} -> 4
      [] ch \in {"q", "Q", "d"} -> 8

CharSigned(ch) == ch \in {"b", "h", "i", "q"}

\* the values struct.pack accepts for an integer format character (every integer
\* of the model fits the signed formats of 4 and 8 bytes)
InRange(ch, v) ==
    IF CharSize(ch) >= 4 THEN CharSigned(ch) \/ 0 <= v
    ELSE IF CharSigned(ch)
    THEN -Pow(256, CharSize(ch)) <= 2 * v /\ 2 * v < Pow(256, CharSize(ch))
    ELSE 0 <= v /\ v < Pow(256, CharSize(ch))

AlignUp(off, a) == ((off + a - 1) \div a) * a

\* struct.calcsize
RECURSIVE CalcSizeFrom(_, _)
CalcSizeFrom(fmt, off) ==
    IF fmt = <<>> THEN off
    ELSE LET it == Head(fmt)
             sz == CharSize(it.ch)
         IN  CalcSizeFrom(Tail(fmt), AlignUp(off, sz) + it.n * sz)

CalcSize(fmt) == CalcSizeFrom(fmt, 0)

\* number of values a format packs or unpacks
RECURSIVE NumValues(_)
NumValues(fmt) == IF fmt = <<>> THEN 0 ELSE Head(fmt).n + NumValues(Tail(fmt))

Zeros(k) == [j \in 1..k |-> 0]

\* one integer as w little-endian bytes, two's complement (% and \div round down)
RECURSIVE LEBytes(_, _)
LEBytes(u, w) == IF w = 0 THEN <<>> ELSE <<u % 256>> \o LEBytes(u \div 256, w - 1)

EncodeValue(ch, v) == LEBytes(v, CharSize(ch))

\* the integer of little-endian bytes, the last byte carrying the sign if signed
RECURSIVE LEValue(_, _)
LEValue(bs, signed) ==
    IF Len(bs) = 1
    THEN IF signed /\ Head(bs) >= 128 THEN Head(bs) - 256 ELSE Head(bs)
    ELSE Head(bs) + 256 * LEValue(Tail(bs), signed)

DecodeValue(ch, bs) == LEValue(bs, CharSigned(ch))

\* bytes of struct.pack(fmt, *vals) for an argument list known to fit
RECURSIVE PackFrom(_, _, _)
PackFrom(fmt, vals, off) ==
    IF fmt = <<>> THEN <<>>
    ELSE LET it  == Head(fmt)
             sz  == CharSize(it.ch)
             pad == AlignUp(off, sz) - off
             own == [k \in 1..it.n |-> EncodeValue(it.ch, vals[k])]
         IN  Zeros(pad) \o Flatten(own)
                \o PackFrom(Tail(fmt), Slice(vals, it.n, Len(vals)), off + pad + it.n * sz)

RECURSIVE AllInRange(_, _)
AllInRange(fmt, vals) ==
    IF fmt = <<>> THEN TRUE
    ELSE LET it == Head(fmt)
         IN  /\ \A k \in 1..it.n : InRange(it.ch, vals[k])
             /\ AllInRange(Tail(fmt), Slice(vals, it.n, Len(vals)))

\* struct.pack: struct.error on a wrong number of arguments or a value out of range
StructPack(fmt, vals) ==
    IF Len(vals) # NumValues(fmt) THEN [err |-> "struct.error", bytes |-> <<>>]
    ELSE IF ~AllInRange(fmt, vals) THEN [err |-> "struct.error", bytes |-> <<>>]
    ELSE [err |-> "", bytes |-> PackFrom(fmt, vals, 0)]

RECURSIVE UnpackFrom(_, _, _)
UnpackFrom(fmt, bs, off) ==
    IF fmt = <<>> THEN <<>>
    ELSE LET it    == Head(fmt)
             sz    == CharSize(it.ch)
             start == AlignUp(off, sz)
             own   == [k \in 1..it.n |->
                          DecodeValue(it.ch, Slice(bs, start + (k - 1) * sz, start + k * sz))]
         IN  own \o UnpackFrom(Tail(fmt), bs, start + it.n * sz)

\* struct.unpack: struct.error unless the buffer has exactly calcsize(fmt) bytes
StructUnpack(fmt, bs) ==
    IF Len(bs) # CalcSize(fmt) THEN [err |-> "struct.error", vals |-> <<>>]
    ELSE [err |-> "", vals |-> UnpackFrom(fmt, bs, 0)]

(***************************************************************************)
(* numpy values.  A column value is a numpy scalar (isArray = FALSE,       *)
(* shape = <<>>) or a numpy.ndarray with its shape; elems are its elements *)
(* in row-major order.                                                     *)
(***************************************************************************)
Scalar(t, v) == [isArray |-> FALSE, dtype |-> t, shape |-> <<>>, elems |-> <<v>>]

NdArray(t, s, es) == [isArray |-> TRUE, dtype |-> t, shape |-> s, elems |-> es]

\* astype / element_type(value): the value wrapped into the element type's range
Cast(t, v) ==
    LET ch == TYPE_TO_STRUCT_FORMAT[t]
    IN  DecodeValue(ch, EncodeValue(ch, v))

(***************************************************************************)
(* Header codec                                                            *)
(***************************************************************************)
\* _make_data_header
make_data_header(datum_sample) ==
    LET element_type_code == TYPE_TO_CODE_DICT[datum_sample.dtype]
        dim   == IF datum_sample.isArray THEN Len(datum_sample.shape) ELSE 1
        shape == IF datum_sample.isArray THEN datum_sample.shape ELSE <<1>>
    IN  StructPack(<<[n |-> 1, ch |-> "H"], [n |-> 1, ch |-> "H"], [n |-> dim, ch |-> "I"]>>,
                   <<element_type_code, dim>> \o shape).bytes

\* _make_header
make_header(total_count, sample_data_record) ==
    LET num_columns  == Len(sample_data_record)
        data_headers == Flatten([k \in 1..num_columns |->
                                    make_data_header(sample_data_record[k])])
    IN  StructPack(<<[n |-> 1, ch |-> "I"], [n |-> 1, ch |-> "I"],
                     [n |-> Len(data_headers), ch |-> "B"]>>,
                   <<total_count, num_columns>> \o data_headers).bytes

\* _read_data_header, after the type code and the dimensionality: the type lookup
\* and the dim shape extents, shp being the unpacked extents
read_shape(element_type_code, dim, pos, shp) ==
    IF element_type_code \notin DOMAIN CODE_TO_TYPE_DICT
    THEN [err |-> "KeyError", pos |-> pos + 4, element_type |-> "", shape |-> <<>>]
    ELSE IF shp.err # ""
    THEN [err |-> shp.err, pos |-> pos + 4, element_type |-> "", shape |-> <<>>]
    ELSE [err |-> "", pos |-> pos + 4 + dim * 4,
          element_type |-> CODE_TO_TYPE_DICT[element_type_code], shape |-> shp.vals]

\* _read_data_header, head being the unpacked (element_type_code, dim)
read_type_and_dim(bs, pos, head) ==
    IF head.err # "" THEN [err |-> head.err, pos |-> pos, element_type |-> "", shape |-> <<>>]
    ELSE read_shape(head.vals[1], head.vals[2], pos,
                    StructUnpack(<<[n |-> head.vals[2], ch |-> "I"]>>,
                                 Slice(bs, pos + 4, pos + 4 + head.vals[2] * 4)))

\* _read_data_header: reads at position pos of the byte content bs
read_data_header(bs, pos) ==
    read_type_and_dim(bs, pos,
                      StructUnpack(<<[n |-> 1, ch |-> "H"], [n |-> 1, ch |-> "H"]>>,
                                   Slice(bs, pos, pos + 4)))

\* the list comprehension of _read_header: k more data headers from position pos on,
\* read holding the ones read so far
RECURSIVE read_data_headers(_, _, _, _)
RECURSIVE read_more_data_headers(_, _, _, _)
read_more_data_headers(bs, k, read, h) ==
    IF h.err # "" THEN [err |-> h.err, pos |-> h.pos, data_headers |-> <<>>]
    ELSE read_data_headers(bs, h.pos, k - 1,
                           Append(read, [element_type |-> h.element_type, shape |-> h.shape]))

read_data_headers(bs, pos, k, read) ==
    IF k = 0 THEN [err |-> "", pos |-> pos, data_headers |-> read]
    ELSE read_more_data_headers(bs, k, read, read_data_header(bs, pos))

\* what _read_header returns: (header_size, total_count, data_headers)
header_of(total_count, cols) ==
    [err |-> cols.err, header_size |-> cols.pos, total_count |-> total_count,
     data_headers |-> cols.data_headers]

\* _read_header, head being the unpacked (total_count, num_columns)
read_columns(bs, head) ==
    IF head.err # ""
    THEN [err |-> head.err, header_size |-> 0, total_count |-> 0, data_headers |-> <<>>]
    ELSE header_of(head.vals[1], read_data_headers(bs, 8, head.vals[2], <<>>))

\* _read_header
read_header(bs) ==
    read_columns(bs, StructUnpack(<<[n |-> 1, ch |-> "I"], [n |-> 1, ch |-> "I"]>>,
                                  Slice(bs, 0, 8)))

(***************************************************************************)
(* Record codec                                                            *)
(***************************************************************************)
\* _make_column_format: (num_elements, struct format) of a sample column
make_column_format(column) ==
    LET num_elements == IF column.shape # <<>> THEN Prod(column.shape) ELSE 1
    IN  [n |-> num_elements, ch |-> TYPE_TO_STRUCT_FORMAT[column.dtype]]

\* _make_column_info
make_column_info(data_header) ==
    LET shape        == data_header.shape
        element_type == data_header.element_type
        num_elements == Prod(shape)
    IN  [element_type  |-> element_type,
         shape         |-> shape,
         num_elements  |-> num_elements,
         struct_format |-> [n |-> num_elements, ch |-> TYPE_TO_STRUCT_FORMAT[element_type]],
         byte_length   |-> num_elements * TYPE_TO_NBYTES_DICT[element_type],
         is_scalar     |-> (Len(shape) = 1 /\ shape[1] = 1)]

RECURSIVE SumByteLength(_)
SumByteLength(infos) ==
    IF infos = <<>> THEN 0 ELSE Head(infos).byte_length + SumByteLength(Tail(infos))

\* file.write(data) at position pos: overwrites, extends the content at its end
FileWrite(bs, pos, data) ==
    [k \in 1..(IF pos + Len(data) > Len(bs) THEN pos + Len(data) ELSE Len(bs)) |->
        IF k > pos /\ k <= pos + Len(data) THEN data[k - pos] ELSE bs[k]]

(***************************************************************************)
(* Packer                                                                  *)
(***************************************************************************)
NoPacker ==
    [state |-> "none", total_count |-> 0, column_formats |-> <<>>, num_columns |-> 0, pos |-> 0]

\* Packer.__init__: the Packer and the content of the file it has created
PackerInit(sample_data_record) ==
    LET header == make_header(0, sample_data_record)
    IN  [packer |-> [state          |-> "open",
                     total_count    |-> 0,
                     column_formats |-> [k \in 1..Len(sample_data_record) |->
                                            make_column_format(sample_data_record[k])],
                     num_columns    |-> Len(sample_data_record),
                     pos            |-> Len(header)],
         bytes  |-> FileWrite(<<>>, 0, header)]

\* the loop of Packer.pack from column k on: it stops at the first column that raises,
\* the columns before it are written
RECURSIVE PackColumns(_, _, _, _, _)
PackColumns(data_record, column_formats, k, bs, pos) ==
    IF k > Min(Len(data_record), Len(column_formats))
    THEN [err |-> "", bytes |-> bs, pos |-> pos]
    ELSE LET column == data_record[k]
             expected_column_format == column_formats[k]
         IN  IF column.isArray /\ Len(column.elems) # expected_column_format.n
             THEN [err |-> "ValueError", bytes |-> bs, pos |-> pos]
             ELSE LET packed_column == StructPack(<<expected_column_format>>, column.elems)
                  IN  IF packed_column.err # ""
                      THEN [err |-> packed_column.err, bytes |-> bs, pos |-> pos]
                      ELSE PackColumns(data_record, column_formats, k + 1,
                                       FileWrite(bs, pos, packed_column.bytes),
                                       pos + Len(packed_column.bytes))

\* Packer.pack
PackerPack(packer, bs, data_record) ==
    IF packer.num_columns # Len(data_record)
    THEN [err |-> "Exception", packer |-> packer, bytes |-> bs]
    ELSE LET w == PackColumns(data_record, packer.column_formats, 1, bs, packer.pos)
         IN  [err    |-> w.err,
              packer |-> [packer EXCEPT !.pos = w.pos,
                                        !.total_count = IF w.err = "" THEN @ + 1 ELSE @],
              bytes  |-> w.bytes]

\* Packer.__del__ without the seek to offset 0: the count lands at the end of the file
PackerDel_NoSeek(packer, bs) ==
    LET count_field == StructPack(<<[n |-> 1, ch |-> "I"]>>, <<packer.total_count>>).bytes
    IN  [packer |-> [packer EXCEPT !.state = "closed", !.pos = @ + Len(count_field)],
         bytes  |-> FileWrite(bs, packer.pos, count_field)]

\* Packer.__del__
PackerDel(packer, bs) ==
    LET count_field == StructPack(<<[n |-> 1, ch |-> "I"]>>, <<packer.total_count>>).bytes
    IN  [packer |-> [packer EXCEPT !.state = "closed", !.pos = Len(count_field)],
         bytes  |-> FileWrite(bs, 0, count_field)]

(***************************************************************************)
(* Loader                                                                  *)
(***************************************************************************)
NoLoader ==
    [state |-> "none", header_size |-> 0, total_count |-> 0, column_info |-> <<>>,
     block_size |-> 0, block_format |-> <<>>]

\* Loader.__init__, from the header read and the column infos made of it
LoaderOf(h, info) ==
    [state        |-> "open",
     header_size  |-> h.header_size,
     total_count  |-> h.total_count,
     column_info  |-> info,
     block_size   |-> SumByteLength(info),
     block_format |-> [k \in 1..Len(info) |-> info[k].struct_format]]

column_infos(data_headers) ==
    [k \in 1..Len(data_headers) |-> make_column_info(data_headers[k])]

LoaderOfHeader(h) == LoaderOf(h, column_infos(h.data_headers))

\* Loader.__init__ on a file of content bs (only called when the header reads)
LoaderInit(bs) == LoaderOfHeader(read_header(bs))

\* Loader.count
LoaderCount(loader) == loader.total_count

\* the value of one column as Loader.load builds it from the unpacked values
LoadColumn(column_info, values, head_index) ==
    LET tail_index == column_info.num_elements
        datum      == Slice(values, head_index, tail_index)
    IN  IF column_info.is_scalar
        THEN Scalar(column_info.element_type, Cast(column_info.element_type, datum[1]))
        ELSE NdArray(column_info.element_type, column_info.shape,
                     [k \in 1..Len(datum) |-> Cast(column_info.element_type, datum[k])])

\* the outcomes of ndarray.reshape() called without a shape (a column of shape ()):
\* a 0-dimensional array, or a TypeError, depending on the numpy build
ReshapeOutcomes == {"ok", "TypeError"}

NoRecord == <<>>

\* Loader.load; seeked tells whether the file position was moved
LoaderLoad(loader, bs, index, reshape0) ==
    IF loader.total_count <= index
    THEN [index |-> index, err |-> "Exception", seeked |-> FALSE, record |-> NoRecord]
    ELSE LET offset == loader.header_size + loader.block_size * index
         IN  IF offset < 0
             THEN [index |-> index, err |-> "OSError", seeked |-> FALSE, record |-> NoRecord]
             ELSE LET u == StructUnpack(loader.block_format,
                                        Slice(bs, offset, offset + loader.block_size))
                  IN  IF u.err # ""
                      THEN [index |-> index, err |-> u.err, seeked |-> TRUE, record |-> NoRecord]
                      ELSE IF reshape0 # "ok"
                              /\ \E k \in 1..Len(loader.column_info) :
                                     loader.column_info[k].shape = <<>>
                      THEN [index |-> index, err |-> reshape0, seeked |-> TRUE,
                            record |-> NoRecord]
                      ELSE [index |-> index, err |-> "", seeked |-> TRUE,
                            record |-> [k \in 1..Len(loader.column_info) |->
                                           LoadColumn(loader.column_info[k], u.vals, 0)]]

(***************************************************************************)
(* BatchLoader                                                             *)
(***************************************************************************)
\* down_samples = None
None == 0

NoBatchLoader ==
    [state |-> "none", loader |-> NoLoader, batch_size |-> 0, count |-> 0, times |-> 0,
     down_samples |-> None]

\* BatchLoader.__init__
BatchLoaderInit(bs, batch_size, down_samples) ==
    LET ld == LoaderInit(bs)
    IN  [state |-> "open", loader |-> ld, batch_size |-> batch_size,
         count |-> LoaderCount(ld), times |-> 0, down_samples |-> down_samples]

\* BatchLoader.__iter__
BatchLoaderIter(b) == [b EXCEPT !.times = 0]

\* BatchLoader.__len__
BatchLoaderLen(b) ==
    LET count == IF b.down_samples # None THEN b.count \div b.down_samples ELSE b.count
    IN  (count + b.batch_size - 1) \div b.batch_size

\* range(head, tail) with the step left out
Range_NoStep(head, tail, step) ==
    IF tail <= head THEN <<>> ELSE [k \in 1..(tail - head) |-> head + (k - 1)]

\* range(head, tail, step) as a tuple
Range(head, tail, step) ==
    IF tail <= head THEN <<>>
    ELSE [k \in 1..((tail - head + step - 1) \div step) |-> head + (k - 1) * step]

\* the first load of a list of loads that raised, 0 when none did
FirstError(loads) ==
    IF \E k \in 1..Len(loads) : loads[k].err # ""
    THEN CHOOSE k \in 1..Len(loads) :
             loads[k].err # "" /\ \A j \in 1..(k - 1) : loads[j].err = ""
    ELSE 0

\* one column of a batch: the column column_i of the records stacked along a new axis
StackColumn(records, column_i) ==
    LET shape == records[1][column_i].shape
        n     == Len(records)
    IN  IF Len(shape) = 1 /\ shape[1] = 1
        THEN NdArray(records[1][column_i].dtype, <<n, 1>>,
                     Flatten([i \in 1..n |-> records[i][column_i].elems]))
        ELSE NdArray("float64", <<n>> \o shape,
                     Flatten([i \in 1..n |-> records[i][column_i].elems]))

\* BatchLoader.__next__: the BatchLoader after the call, the indices it loaded and
\* the batch it returned
BatchLoaderNext(b, bs, reshape0) ==
    LET step_size  == IF b.down_samples # None THEN b.down_samples ELSE 1
        head_index == b.times * b.batch_size * step_size
        tail_index == Min((b.times + 1) * b.batch_size * step_size, b.count)
        indices    == Range(head_index, tail_index, step_size)
        loads      == [k \in 1..Len(indices) |-> LoaderLoad(b.loader, bs, indices[k], reshape0)]
        records    == [k \in 1..Len(indices) |-> loads[k].record]
    IN  IF b.count <= head_index
        THEN [err |-> "StopIteration", batch_loader |-> b, indices |-> <<>>, batch |-> <<>>]
        ELSE IF FirstError(loads) # 0
        THEN [err |-> loads[FirstError(loads)].err, batch_loader |-> b, indices |-> <<>>,
              batch |-> <<>>]
        ELSE [err |-> "", batch_loader |-> [b EXCEPT !.times = @ + 1], indices |-> indices,
              batch |-> [column_i \in 1..Len(records[1]) |-> StackColumn(records, column_i)]]

(***************************************************************************)
(* Inputs                                                                  *)
(***************************************************************************)
SampleA == <<Scalar("int8", 0)>>
SampleB == <<Scalar("int16", 0), NdArray("int16", <<2, 2>>, <<0, 0, 0, 0>>)>>
SampleC == <<Scalar("int8", 0), NdArray("int16", <<2>>, <<0, 0>>)>>
SampleD == <<NdArray("int8", <<>>, <<0>>)>>

Samples == {SampleA, SampleB, SampleC, SampleD}

Records ==
    { <<Scalar("int16", 5), NdArray("int16", <<2, 2>>, <<1, 2, 3, 4>>)>>,
      <<Scalar("int16", 300), NdArray("int16", <<2, 2>>, <<5, 6, -1, -300>>)>>,
      <<Scalar("int16", 2), NdArray("int16", <<4>>, <<1, 2, 3, 4>>)>>,
      <<Scalar("int8", 3), NdArray("int16", <<2>>, <<-1, 300>>)>>,
      <<Scalar("int8", -2)>>,
      <<NdArray("int8", <<>>, <<4>>)>> }

\* the record packed as number i into the file a BatchLoader is opened on
RecordOf(sample_data_record, i) ==
    [k \in 1..Len(sample_data_record) |->
        [sample_data_record[k] EXCEPT
            !.elems = [j \in 1..Len(@) |-> IF k = 1 THEN i ELSE 10 * i + j]]]

\* a record has the columns, the shapes and the element types of the sample
Conforms(data_record, sample_data_record) ==
    /\ Len(data_record) = Len(sample_data_record)
    /\ \A k \in 1..Len(data_record) :
          /\ data_record[k].isArray = sample_data_record[k].isArray
          /\ data_record[k].shape = sample_data_record[k].shape
          /\ data_record[k].dtype = sample_data_record[k].dtype
          /\ Len(data_record[k].elems) = Prod(data_record[k].shape)

(***************************************************************************)
(* State                                                                   *)
(***************************************************************************)
VARIABLES
    file,          \* byte content of the pack file
    packer,        \* the Packer
    sample,        \* the sample record the Packer was constructed with
    packed,        \* the records pack() has returned normally for, in order
    lastPack,      \* the last pack() call: its record and the error it raised ("" for none)
    pack_calls,    \* number of pack() calls made
    loader,        \* the Loader
    loaded,        \* the last load() call: index, error, record
    batch_loader,  \* the BatchLoader
    pass,          \* the index lists of the batches returned since the last __iter__
    exhausted,     \* __next__ has raised StopIteration since the last __iter__
    lastNext,      \* the last __next__ call: error, indices, batch
    iters          \* per caller: the iterator it got from iter() and what it was given

vars == <<file, packer, sample, packed, lastPack, pack_calls, loader, loaded,
          batch_loader, pass, exhausted, lastNext, iters>>

writerVars == <<file, packer, sample, packed, lastPack, pack_calls>>
loaderVars == <<loader, loaded>>
batchVars  == <<batch_loader, pass, exhausted, lastNext, iters>>

Callers == {1, 2}

NoPack == [called |-> FALSE, record |-> <<>>, err |-> ""]
NoLoad == [index |-> 0, err |-> "none", seeked |-> FALSE, record |-> NoRecord]
NoNext == [err |-> "none", indices |-> <<>>, batch |-> <<>>]
NoIter == [obtained |-> FALSE, got |-> 0, last |-> <<>>, done |-> FALSE]

Init ==
    /\ file = <<>>
    /\ packer = NoPacker
    /\ sample = <<>>
    /\ packed = <<>>
    /\ lastPack = NoPack
    /\ pack_calls = 0
    /\ loader = NoLoader
    /\ loaded = NoLoad
    /\ batch_loader = NoBatchLoader
    /\ pass = <<>>
    /\ exhausted = FALSE
    /\ lastNext = NoNext
    /\ iters = [c \in Callers |-> NoIter]

(***************************************************************************)
(* Packer and Loader operations                                            *)
(***************************************************************************)
\* Packer(path, *sample_data_record)
Create(sample_data_record) ==
    /\ packer.state = "none"
    /\ LET made == PackerInit(sample_data_record)
       IN  /\ packer' = made.packer
           /\ file' = made.bytes
    /\ sample' = sample_data_record
    /\ UNCHANGED <<packed, lastPack, pack_calls, loaderVars, batchVars>>

\* packer.pack(*data_record)
Pack(data_record) ==
    /\ packer.state = "open"
    /\ pack_calls < MaxAppends
    /\ LET done == PackerPack(packer, file, data_record)
       IN  /\ packer' = done.packer
           /\ file' = done.bytes
           /\ lastPack' = [called |-> TRUE, record |-> data_record, err |-> done.err]
           /\ packed' = IF done.err = "" THEN Append(packed, data_record) ELSE packed
    /\ pack_calls' = pack_calls + 1
    /\ UNCHANGED <<sample, loaderVars, batchVars>>

\* del packer
Finalize ==
    /\ packer.state = "open"
    /\ LET done == PackerDel(packer, file)
       IN  /\ packer' = done.packer
           /\ file' = done.bytes
    /\ UNCHANGED <<sample, packed, lastPack, pack_calls, loaderVars, batchVars>>

\* Loader(path)
Open ==
    /\ packer.state # "none"
    /\ read_header(file).err = ""
    /\ loader' = LoaderInit(file)
    /\ loaded' = NoLoad
    /\ UNCHANGED <<writerVars, batchVars>>

\* loader.load(index)
Load(index, reshape0) ==
    /\ loader.state = "open"
    /\ loaded' = LoaderLoad(loader, file, index, reshape0)
    /\ UNCHANGED <<loader, writerVars, batchVars>>

Next ==
    \/ \E s \in Samples : Create(s)
    \/ \E r \in Records : Pack(r)
    \/ Finalize
    \/ Open
    \/ \E i \in (-3)..(MaxAppends + 1), o \in ReshapeOutcomes : Load(i, o)

Spec == Init /\ [][Next]_vars

(***************************************************************************)
(* BatchLoader operations, on a file a Packer has written and closed       *)
(***************************************************************************)
BatchSamples == {SampleA, SampleB, SampleC}

\* the Packer and the file after packing records number from..count-1
RECURSIVE PackAll(_, _, _, _, _)
PackAll(pk, bs, sample_data_record, from, count) ==
    IF from >= count THEN [packer |-> pk, bytes |-> bs]
    ELSE LET done == PackerPack(pk, bs, RecordOf(sample_data_record, from))
         IN  PackAll(done.packer, done.bytes, sample_data_record, from + 1, count)

\* a Packer was constructed, has packed count records and was deleted
InitBatch ==
    \E s \in BatchSamples, count \in 0..MaxCount :
        LET made   == PackerInit(s)
            filled == PackAll(made.packer, made.bytes, s, 0, count)
            closed == PackerDel(filled.packer, filled.bytes)
        IN  /\ file = closed.bytes
            /\ packer = closed.packer
            /\ sample = s
            /\ packed = [i \in 1..count |-> RecordOf(s, i - 1)]
            /\ lastPack = IF count = 0 THEN NoPack
                          ELSE [called |-> TRUE, record |-> RecordOf(s, count - 1), err |-> ""]
            /\ pack_calls = count
            /\ loader = NoLoader
            /\ loaded = NoLoad
            /\ batch_loader = NoBatchLoader
            /\ pass = <<>>
            /\ exhausted = FALSE
            /\ lastNext = NoNext
            /\ iters = [c \in Callers |-> NoIter]

\* BatchLoader(path, batch_size, down_samples)
Construct(batch_size, down_samples) ==
    /\ batch_loader.state = "none"
    /\ read_header(file).err = ""
    /\ batch_loader' = BatchLoaderInit(file, batch_size, down_samples)
    /\ UNCHANGED <<writerVars, loaderVars, pass, exhausted, lastNext, iters>>

\* caller c: it = iter(batch_loader); __iter__ returns the BatchLoader itself
Iter(c) ==
    /\ batch_loader.state = "open"
    /\ batch_loader' = BatchLoaderIter(batch_loader)
    /\ iters' = [iters EXCEPT ![c] = [obtained |-> TRUE, got |-> 0, last |-> <<>>,
                                      done |-> FALSE]]
    /\ pass' = <<>>
    /\ exhausted' = FALSE
    /\ UNCHANGED <<writerVars, loaderVars, lastNext>>

\* caller c: next(it)
NextBatch(c, reshape0) ==
    /\ batch_loader.state = "open"
    /\ iters[c].obtained
    /\ iters[c].got < MaxYield
    /\ LET res == BatchLoaderNext(batch_loader, file, reshape0)
       IN  /\ batch_loader' = res.batch_loader
           /\ lastNext' = [err |-> res.err, indices |-> res.indices, batch |-> res.batch]
           /\ pass' = IF res.err = "" THEN Append(pass, res.indices) ELSE pass
           /\ exhausted' = (exhausted \/ res.err = "StopIteration")
           /\ iters' = [iters EXCEPT ![c] =
                           IF res.err = ""
                           THEN [@ EXCEPT !.got = @ + 1, !.last = res.indices]
                           ELSE IF res.err = "StopIteration" THEN [@ EXCEPT !.done = TRUE]
                           ELSE @]
    /\ UNCHANGED <<writerVars, loaderVars>>

NextB ==
    \/ \E b \in 1..MaxBatch, d \in {None} \cup (1..MaxStride) : Construct(b, d)
    \/ \E c \in Callers : Iter(c)
    \/ \E c \in Callers, o \in ReshapeOutcomes : NextBatch(c, o)

SpecBatch == InitBatch /\ [][NextB]_vars

(***************************************************************************)
(* Properties                                                              *)
(***************************************************************************)
\* the count and the shapes (scalar or array) of a record match the sample
ShapeConforms(data_record, sample_data_record) ==
    /\ Len(data_record) = Len(sample_data_record)
    /\ \A k \in 1..Len(data_record) :
          /\ data_record[k].isArray = sample_data_record[k].isArray
          /\ data_record[k].shape = sample_data_record[k].shape

\* bytes of one block as the Packer's column formats give it
RECURSIVE SumFormatBytes(_)
SumFormatBytes(fs) ==
    IF fs = <<>> THEN 0 ELSE Head(fs).n * CharSize(Head(fs).ch) + SumFormatBytes(Tail(fs))

PackerBlockSize(pk) == SumFormatBytes(pk.column_formats)

\* C1: after packing conforming records only and deleting the Packer, load(i) of a
\* Loader opened on the file returns a record equal, column by column, to the
\* i-th packed record.
C1_RoundTrip ==
    ( /\ packer.state = "closed"
      /\ pack_calls = Len(packed)
      /\ \A k \in 1..Len(packed) : Conforms(packed[k], sample)
      /\ loader.state = "open"
      /\ loader.total_count = Len(packed)
      /\ loaded.err = ""
      /\ loaded.index \in 0..(Len(packed) - 1) )
    => loaded.record = packed[loaded.index + 1]

C3_OutOfRange ==
    ( /\ packer.state = "closed"
      /\ loader.state = "open"
      /\ loader.total_count = Len(packed)
      /\ loaded.err # "none"
      /\ (loaded.index < 0 \/ loaded.index >= loader.total_count) )
    => (loaded.err = "Exception" /\ ~loaded.seeked /\ loaded.record = NoRecord)

\* C6: pack() raises for every record whose column count or whose column shapes
\* (or scalar-ness) differ from the sample's.
C6_RejectsNonConforming ==
    (lastPack.called /\ ~ShapeConforms(lastPack.record, sample)) => lastPack.err # ""

\* C7: a header with a column of dimensionality 0 is not decoded: reading it fails,
\* and no Loader holds a column of empty shape.
C7_NoZeroDim ==
    /\ (packer.state # "none" /\ read_header(file).err = "") =>
          \A k \in 1..Len(read_header(file).data_headers) :
              read_header(file).data_headers[k].shape # <<>>
    /\ loader.state = "open" =>
          \A k \in 1..Len(loader.column_info) : loader.column_info[k].shape # <<>>

\* C9: the bytes the Loader's block format needs equal block_size, which is what
\* one successful pack() writes; load of a valid index of a closed file whose
\* pack() calls all succeeded raises no size error.
C9_BlockSize ==
    loader.state = "open" =>
        /\ CalcSize(loader.block_format) = loader.block_size
        /\ loader.block_size = PackerBlockSize(packer)
        /\ ( /\ packer.state = "closed"
             /\ pack_calls = Len(packed)
             /\ loader.total_count = Len(packed)
             /\ loaded.err # "none"
             /\ loaded.index \in 0..(loader.total_count - 1) )
           => loaded.err # "struct.error"

\* C10: the body bytes of the file are always block_size * total_count of the
\* Packer: a pack() that raises writes nothing.
C10_BlockAligned ==
    packer.state = "open" =>
        Len(file) - Len(make_header(0, sample)) = PackerBlockSize(packer) * packer.total_count

(***************************************************************************)
(* Properties of the BatchLoader                                           *)
(***************************************************************************)
step_size_of(b) == IF b.down_samples # None THEN b.down_samples ELSE 1

\* 0, s, 2s, ... below count
StridedIndices(count, s) == [j \in 1..((count + s - 1) \div s) |-> (j - 1) * s]

\* the batch number t (from 0) of a full pass: the t-th run of batch_size strided indices
ExpectedBatch(b, t) ==
    LET all == StridedIndices(b.count, step_size_of(b))
    IN  Slice(all, t * b.batch_size, (t + 1) * b.batch_size)

ExpectedNumBatches(b) ==
    LET n == Len(StridedIndices(b.count, step_size_of(b)))
    IN  (n + b.batch_size - 1) \div b.batch_size

\* C4: the batches of one pass, concatenated, are the indices 0, s, 2s, ... below
\* total_count, in order, each once; every batch but the last has batch_size
\* records and none is empty; a returned batch stacks the records of its indices
\* (checked on the contents of one-column files).
C4_BatchContents ==
    batch_loader.state = "open" =>
        LET all == Flatten(pass)
            s   == step_size_of(batch_loader)
        IN  /\ \A j \in 1..Len(all) : all[j] = (j - 1) * s /\ all[j] < batch_loader.count
            /\ exhausted => all = StridedIndices(batch_loader.count, s)
            /\ \A k \in 1..Len(pass) :
                  /\ Len(pass[k]) >= 1
                  /\ Len(pass[k]) <= batch_loader.batch_size
                  /\ k < Len(pass) => Len(pass[k]) = batch_loader.batch_size
            /\ (lastNext.err = "" /\ Len(sample) = 1) =>
                  /\ Len(lastNext.batch) = 1
                  /\ lastNext.batch[1].shape[1] = Len(lastNext.indices)
                  /\ lastNext.batch[1].elems =
                        Flatten([k \in 1..Len(lastNext.indices) |->
                                    packed[lastNext.indices[k] + 1][1].elems])

\* C4 witness: a finished pass with stride 2 over 4 records or more, a batch of two
\* records (indices 0 and 2) in it
C4_Witness ==
    /\ batch_loader.state = "open"
    /\ exhausted
    /\ batch_loader.down_samples = 2
    /\ batch_loader.count >= 4
    /\ Len(pass) >= 1
    /\ pass[1] = <<0, 2>>
    /\ Len(sample) = 1

\* C5: len(batch_loader) is the number of batches of a full pass.
C5_LenIsBatchCount ==
    (batch_loader.state = "open" /\ exhausted) => Len(pass) = BatchLoaderLen(batch_loader)

\* C8: every caller that got an iterator from iter() is given the batches of its own
\* full pass in order, none skipped or repeated, whatever the other caller does.
C8_NonInterference ==
    \A c \in Callers :
        iters[c].obtained =>
            /\ iters[c].got > 0 => iters[c].last = ExpectedBatch(batch_loader, iters[c].got - 1)
            /\ iters[c].done => iters[c].got = ExpectedNumBatches(batch_loader)

====
